---- MODULE Spec2Model ----
(***************************************************************************)
(* Cart -> Order -> Payment -> Purchase state machine of the online cinema *)
(* backend (app/cart, app/orders, app/payments, app/movies).               *)
(*                                                                         *)
(* Every request handler runs in one database session: its effects are    *)
(* either committed together or rolled back together.  A handler is an     *)
(* operator that maps the stored tables and the request's inputs to the    *)
(* HTTP answer and the tables as the request leaves them; the action of    *)
(* the handler stores those tables.                                        *)
(* Tables are sets (or bags) of rows; money is counted in minor units.     *)
(* Integer primary keys are allocated as the largest key in use plus one.  *)
(* The payment gateway is an external collaborator whose calls either      *)
(* answer ("ok") or raise ("error").                                       *)
(***************************************************************************)
EXTENDS Integers, FiniteSets, Sequences, Bags, TLC

\* ---------------------------------------------------------------- bounds --
Users == {1, 2}
Prices == {1, 2}
MaxMovies == 2
MaxCarts == 2
MaxOrders == 2
MaxInflight == 1
MaxAccounts == 2
MaxTokens == 3
MaxNow == 3
Gateway == {"ok", "error"}

MovieIds == 1..MaxMovies
CartIds == 1..MaxCarts
OrderIds == 1..MaxOrders
Emails == 1..MaxAccounts
Passwords == {1, 2}
TokenValues == 1..MaxTokens

VARIABLES
    movies,         \* catalog rows                    [id, price]
    carts,          \* rows of table carts             [id, user_id]
    cart_items,     \* bag of rows of cart_items       [cart_id, movie_id]
    purchases,      \* bag of rows of purchases        [user_id, movie_id]
    orders,         \* rows of table orders            [id, user_id, status, total_amount, created_at]
    order_items,    \* rows of table order_items       [id, order_id, movie_id, price_at_order]
    payments,       \* rows of table payments          [id, user_id, order_id, status, amount, external_payment_id]
    payment_items,  \* rows of table payment_items     [payment_id, order_item_id, price_at_payment]
    inflight        \* requests that passed their checks and have not written yet
                    \*   [op, user_id, movie_id, cart, movies_ids]
VARIABLES
    users,                  \* rows of table users    [id, email, is_active, password]
    activation_tokens,      \* rows of activation_tokens      [user_id, token, expires_at]
    password_reset_tokens,  \* rows of password_reset_tokens  [user_id, token, expires_at]
    refresh_tokens,         \* rows of refresh_tokens         [id, user_id, token]
    next_token,             \* the next value of the secure token generator
    now                     \* the clock, in days

tables == <<movies, carts, cart_items, purchases, orders, order_items,
            payments, payment_items>>

accounts == <<users, activation_tokens, password_reset_tokens, refresh_tokens,
              next_token>>

vars == <<tables, inflight, accounts, now>>

\* --------------------------------------------------------------- helpers --
Max(S) == CHOOSE x \in S : \A y \in S : y <= x

\* autoincrement primary key of the next row inserted into a table
NextId(rows) == IF rows = {} THEN 1 ELSE Max({r.id : r \in rows}) + 1

RECURSIVE SumPrices(_)
SumPrices(S) ==
    IF S = {} THEN 0
    ELSE LET m == CHOOSE x \in S : TRUE IN m.price + SumPrices(S \ {m})

RECURSIVE SumPriceAtOrder(_)
SumPriceAtOrder(S) ==
    IF S = {} THEN 0
    ELSE LET i == CHOOSE x \in S : TRUE IN i.price_at_order + SumPriceAtOrder(S \ {i})

\* restriction of a bag to the rows that satisfy Keep
FilterBag(B, Keep(_)) == [r \in {x \in DOMAIN B : Keep(x)} |-> B[r]]

\* the answer of a request that leaves every table as it found it: a request
\* refused before any write, or one whose session is rolled back or discarded
Rollback(status, detail) ==
    [status |-> status, detail |-> detail,
     movies |-> movies, carts |-> carts, cart_items |-> cart_items,
     purchases |-> purchases, orders |-> orders, order_items |-> order_items,
     payments |-> payments, payment_items |-> payment_items]

\* the tables of an answer become the stored tables
Commit(r) ==
    /\ movies' = r.movies
    /\ carts' = r.carts
    /\ cart_items' = r.cart_items
    /\ purchases' = r.purchases
    /\ orders' = r.orders
    /\ order_items' = r.order_items
    /\ payments' = r.payments
    /\ payment_items' = r.payment_items

\* the answer left the tables as they are stored
SameTables(r) == r = Rollback(r.status, r.detail)

\* ------------------------------------------------------------ relationships --
\* UserModel.cart (scalar relationship); {} when the user has no cart
UserCart(u) == {c \in carts : c.user_id = u}

\* CartModel.cart_items: the bag of item rows of one cart
CartItemsOf(cid) == FilterBag(cart_items, LAMBDA r : r.cart_id = cid)

\* OrderModel.order_items
OrderItemsOf(oid) == {i \in order_items : i.order_id = oid}

OrderMovieIds(oid) == {i.movie_id : i \in OrderItemsOf(oid)}

\* movie ids held in the cart of user u ({} when there is no cart)
CartMovieIds(u) ==
    UNION {{r.movie_id : r \in DOMAIN CartItemsOf(c.id)} : c \in UserCart(u)}

MovieExists(m) == \E r \in movies : r.id = m

\* ------------------------------------------------------------------ Init --
Init ==
    /\ movies = {}
    /\ carts = {}
    /\ cart_items = EmptyBag
    /\ purchases = EmptyBag
    /\ orders = {}
    /\ order_items = {}
    /\ payments = {}
    /\ payment_items = {}
    /\ inflight = {}
    /\ users = {}
    /\ activation_tokens = {}
    /\ password_reset_tokens = {}
    /\ refresh_tokens = {}
    /\ next_token = 1
    /\ now = 1

\* ------------------------------------------------------------ constraints --
\* Index("unique_movie_constraint", "cart_id", "movie_id", unique=True)
unique_movie_constraint(items) == \A r \in DOMAIN items : items[r] <= 1

\* the carts table without the unique index of its user_id column
unique_cart_user_absent(rows) == TRUE

\* carts.user_id: mapped_column(ForeignKey("users.id"), nullable=True, unique=True)
unique_cart_user(rows) == \A a \in rows, b \in rows : a.user_id = b.user_id => a = b

\* the purchases table without its unique index
unique_purchases_constraint_absent(rows) == TRUE

\* Index("unique_purchases_constraint", "user_id", "movie_id", unique=True)
unique_purchases_constraint(rows) == \A r \in DOMAIN rows : rows[r] <= 1

\* ----------------------------------------------------------------- catalog --
\* POST /movies/ by an admin or moderator
create_movie(price) ==
    [Rollback(201, "") EXCEPT
        !.movies = movies \cup {[id |-> NextId(movies), price |-> price]}]

\* a price update that reprices the items of the orders of the movie as well
update_movie_repricing(movie_id, price) ==
    IF ~MovieExists(movie_id)
    THEN Rollback(404, "Movie with the given ID was not found.")
    ELSE [Rollback(200, "Movie updated successfully.") EXCEPT
            !.movies = {IF r.id = movie_id THEN [r EXCEPT !.price = price] ELSE r
                        : r \in movies},
            !.order_items = {IF i.movie_id = movie_id
                             THEN [i EXCEPT !.price_at_order = price] ELSE i
                             : i \in order_items}]

\* PATCH /movies/{movie_id}/ with a new price, by an admin or moderator
update_movie(movie_id, price) ==
    IF ~MovieExists(movie_id)
    THEN Rollback(404, "Movie with the given ID was not found.")
    ELSE [Rollback(200, "Movie updated successfully.") EXCEPT
            !.movies = {IF r.id = movie_id THEN [r EXCEPT !.price = price] ELSE r
                        : r \in movies}]

\* rows whose NOT NULL movie_id the session would have to blank out when the
\* movie is deleted (MovieModel.cart_items / MovieModel.order_items)
MovieDependents(movie_id) ==
    \/ \E r \in DOMAIN cart_items : r.movie_id = movie_id
    \/ \E i \in order_items : i.movie_id = movie_id

\* a deletion that does not look at the purchases
delete_movie_unguarded(movie_id) ==
    IF ~MovieExists(movie_id)
    THEN Rollback(404, "Movie with the given ID was not found.")
    ELSE IF MovieDependents(movie_id)
    THEN Rollback(500, "Internal Server Error")
    ELSE [Rollback(204, "") EXCEPT !.movies = {r \in movies : r.id # movie_id}]

\* DELETE /movies/{movie_id}/ by an admin or moderator
delete_movie(movie_id) ==
    IF \E r \in DOMAIN purchases : r.movie_id = movie_id
    THEN Rollback(403, "This movie cannot be deleted as it has been purchased.")
    ELSE IF ~MovieExists(movie_id)
    THEN Rollback(404, "Movie with the given ID was not found.")
    ELSE IF MovieDependents(movie_id)
    THEN \* IntegrityError on flush, not handled: the session is discarded
         Rollback(500, "Internal Server Error")
    ELSE [Rollback(204, "") EXCEPT !.movies = {r \in movies : r.id # movie_id}]

\* -------------------------------------------------------------------- cart --
\* the checks of an add-to-cart that does not look at the purchases
AddItemChecks_purchaseIgnored(user_id, movie_id) ==
    IF ~MovieExists(movie_id) THEN "Invalid input data." ELSE "ok"

\* create_or_update_cart, lines 34-41: the two reads made before any write
AddItemChecks(user_id, movie_id) ==
    IF BagIn([user_id |-> user_id, movie_id |-> movie_id], purchases)
    THEN "You have already bought this movie("
    ELSE IF ~MovieExists(movie_id) THEN "Invalid input data."
    ELSE "ok"

\* create_or_update_cart, lines 43-66: find or create the cart, insert the
\* item and commit.  fk tells whether the database enforces foreign keys.
AddItemWrite(user_id, movie_id, fk) ==
    LET cart == IF UserCart(user_id) = {}
                THEN [id |-> NextId(carts), user_id |-> user_id]
                ELSE CHOOSE c \in UserCart(user_id) : TRUE
        items == cart_items (+) SetToBag({[cart_id |-> cart.id, movie_id |-> movie_id]})
    IN  IF ~unique_movie_constraint(items) \/ (fk /\ ~MovieExists(movie_id))
        THEN \* IntegrityError -> 400; nothing of the session is committed
             Rollback(400, "Invalid data")
        ELSE [Rollback(200, "added in cart successfully") EXCEPT
                !.carts = carts \cup {cart}, !.cart_items = items]

\* create_or_update_cart, lines 45-66, of a request that read the user's cart
\* (line 43) as seen, a set of at most one row, before other requests were
\* served: the cart is created when none was seen, the item is inserted for
\* the cart that was seen, and the database decides on its constraints.
AddItemWriteSeen(user_id, movie_id, seen, fk) ==
    LET cart == IF seen = {}
                THEN [id |-> NextId(carts), user_id |-> user_id]
                ELSE CHOOSE c \in seen : TRUE
        new_carts == IF seen = {} THEN carts \cup {cart} ELSE carts
        items == cart_items (+) SetToBag({[cart_id |-> cart.id, movie_id |-> movie_id]})
    IN  IF ~unique_cart_user(new_carts)
        THEN \* IntegrityError on the flush of line 50: rollback and 400
             Rollback(400, "Invalid input data.")
        ELSE IF \/ ~unique_movie_constraint(items)
                \/ fk /\ (~MovieExists(movie_id) \/ cart \notin new_carts)
        THEN Rollback(400, "Invalid data")
        ELSE [Rollback(200, "added in cart successfully") EXCEPT
                !.carts = new_carts, !.cart_items = items]

\* POST /carts/ served without interference from other requests
create_or_update_cart(user_id, movie_id) ==
    IF AddItemChecks(user_id, movie_id) # "ok"
    THEN Rollback(400, AddItemChecks(user_id, movie_id))
    ELSE AddItemWrite(user_id, movie_id, TRUE)

\* DELETE /carts/
remove_movie_from_cart(user_id, movie_id) ==
    IF ~MovieExists(movie_id)
    THEN Rollback(400, "Invalid input data.")
    ELSE IF UserCart(user_id) = {}
    THEN \* cart is None and cart.id is read: AttributeError, not handled
         Rollback(500, "Internal Server Error")
    ELSE LET cart == CHOOSE c \in UserCart(user_id) : TRUE
             row == [cart_id |-> cart.id, movie_id |-> movie_id]
         IN  IF ~BagIn(row, cart_items)
             THEN Rollback(400, "Invalid data")
             ELSE [Rollback(200, "was deteled from cart") EXCEPT
                     !.cart_items = cart_items (-) SetToBag({row})]

\* db.delete(cart): the items go with the cart (cascade="all, delete-orphan")
DeleteCart(cart) == FilterBag(cart_items, LAMBDA r : r.cart_id # cart.id)

\* DELETE /carts/{cart_id}/
remove_cart(user_id, cart_id) ==
    IF ~\E c \in carts : c.id = cart_id
    THEN Rollback(404, "Cart not found")
    ELSE LET cart == CHOOSE c \in carts : c.id = cart_id
         IN  IF cart.user_id # user_id
             THEN Rollback(401, "Invalid token")
             ELSE [Rollback(204, "") EXCEPT
                     !.carts = carts \ {cart}, !.cart_items = DeleteCart(cart)]

\* ------------------------------------------------------------------ orders --
\* the duplicate check looking for the wrong status
DuplicatePending_paid(user_id, movies_ids, len_movies_ids) ==
    \E order \in orders :
        /\ order.user_id = user_id
        /\ Cardinality(OrderMovieIds(order.id) \cup movies_ids) = len_movies_ids
        /\ order.status = "paid"

\* create_order, lines 86-96: some order of the user is pending and adds no
\* movie to the cart's list: len(set(order_movies_ids + movies_ids)) == len(movies_ids)
DuplicatePending(user_id, movies_ids, len_movies_ids) ==
    \E order \in orders :
        /\ order.user_id = user_id
        /\ Cardinality(OrderMovieIds(order.id) \cup movies_ids) = len_movies_ids
        /\ order.status = "pending"

\* the total summed over the whole catalog instead of the movies of the cart
NewOrder_catalogTotal(user_id, ms) ==
    [id |-> NextId(orders), user_id |-> user_id, status |-> "pending",
     total_amount |-> SumPrices(movies), created_at |-> now]

\* create_order, lines 98-106: the OrderModel row flushed by the session
NewOrder(user_id, ms) ==
    [id |-> NextId(orders), user_id |-> user_id, status |-> "pending",
     total_amount |-> SumPrices(ms), created_at |-> now]

\* create_order, lines 108-118: one OrderItemModel per movie returned by the query
NewOrderItems(order, ms) ==
    {[id |-> NextId(order_items) + Cardinality({x \in ms : x.id < m.id}),
      order_id |-> order.id, movie_id |-> m.id, price_at_order |-> m.price]
     : m \in ms}

\* create_stripe_session, lines 22-29: the PaymentModel row flushed by the session
NewPayment(order, user_id) ==
    [id |-> NextId(payments), user_id |-> user_id, order_id |-> order.id,
     status |-> "pending", amount |-> order.total_amount,
     external_payment_id |-> 0]

\* the payment items built from an order_items collection read as empty
NewPaymentItems_unloaded(payment, items) == {}

\* create_stripe_session, lines 58-65
NewPaymentItems(payment, items) ==
    {[payment_id |-> payment.id, order_item_id |-> i.id,
      price_at_payment |-> i.price_at_order] : i \in items}

\* payment-session creation that empties the user's cart when it succeeds
create_stripe_session_clearsCart(order, items, user_id, gateway) ==
    LET payment == NewPayment(order, user_id)
    IN  IF gateway = "error"
        THEN Rollback(500, "Internal Server Error")
        ELSE [Rollback(201, "pending") EXCEPT
                !.orders = orders \cup {order},
                !.order_items = order_items \cup items,
                !.payments = payments \cup
                    {[payment EXCEPT !.external_payment_id = payment.id]},
                !.payment_items = payment_items \cup NewPaymentItems(payment, items),
                !.carts = carts \ UserCart(user_id),
                !.cart_items = FilterBag(cart_items,
                    LAMBDA r : \A c \in UserCart(user_id) : r.cart_id # c.id)]

\* payment-session creation that commits the order and the payment before it
\* calls the gateway
create_stripe_session_commitsFirst(order, items, user_id, gateway) ==
    LET payment == NewPayment(order, user_id)
    IN  IF gateway = "error"
        THEN [Rollback(500, "Internal Server Error") EXCEPT
                !.orders = orders \cup {order},
                !.order_items = order_items \cup items,
                !.payments = payments \cup {payment}]
        ELSE [Rollback(201, "pending") EXCEPT
                !.orders = orders \cup {order},
                !.order_items = order_items \cup items,
                !.payments = payments \cup
                    {[payment EXCEPT !.external_payment_id = payment.id]},
                !.payment_items = payment_items \cup NewPaymentItems(payment, items)]

\* create_stripe_session: the Payment row is flushed, the gateway is asked for
\* a checkout session, then the session id and the PaymentItem rows are
\* written and everything the session flushed is committed.  A gateway error
\* leaves the function before the commit and is handled by nobody: the
\* session is discarded with what it flushed.
create_stripe_session(order, items, user_id, gateway) ==
    LET payment == NewPayment(order, user_id)
    IN  IF gateway = "error"
        THEN Rollback(500, "Internal Server Error")
        ELSE [Rollback(201, "pending") EXCEPT
                !.orders = orders \cup {order},
                !.order_items = order_items \cup items,
                !.payments = payments \cup
                    {[payment EXCEPT !.external_payment_id = payment.id]},
                !.payment_items = payment_items \cup NewPaymentItems(payment, items)]

\* checkout without the comparison of the two counts
MoviesResolved_unchecked(ms, len_movies_ids) == TRUE

\* create_order, lines 78-84: the query found a movie for every cart item
MoviesResolved(ms, len_movies_ids) == Cardinality(ms) = len_movies_ids

\* POST /orders/
create_order(user_id, gateway) ==
    IF UserCart(user_id) = {}
    THEN Rollback(400, "Bad Request")
    ELSE LET cart == CHOOSE c \in UserCart(user_id) : TRUE
             len_movies_ids == BagCardinality(CartItemsOf(cart.id))
             movies_ids == CartMovieIds(user_id)
             ms == {m \in movies : m.id \in movies_ids}
         IN  IF ~MoviesResolved(ms, len_movies_ids)
             THEN Rollback(400, "Invalid movies data")
             ELSE IF DuplicatePending(user_id, movies_ids, len_movies_ids)
             THEN Rollback(400, "you already have order with the same movies")
             ELSE LET order == NewOrder(user_id, ms)
                  IN  create_stripe_session(order, NewOrderItems(order, ms),
                                            user_id, gateway)

\* get_current_user_id: the user id an access token carries; 0 stands for a
\* request whose token is missing or does not decode, which is answered 401
get_current_user_id(token) == token

\* an order listing that applies the user filter of the query string to every
\* caller
get_orders_filterForAll(token, group, id_user, order_date, order_status) ==
    IF get_current_user_id(token) = 0 \/ group = "none"
    THEN [status |-> 401, orders |-> {}]
    ELSE [status |-> 200,
          orders |-> {o \in orders :
                        /\ id_user # 0 => o.user_id = id_user
                        /\ id_user = 0 /\ group # "admin"
                              => o.user_id = get_current_user_id(token)}]

\* GET /orders/ with the query parameters id_user, order_date and
\* order_status (0, 0 and "" when absent), called by the user of the token,
\* whose group is read from the users table ("none": no such user)
get_orders(token, group, id_user, order_date, order_status) ==
    IF get_current_user_id(token) = 0 \/ group = "none"
    THEN [status |-> 401, orders |-> {}]
    ELSE IF group = "admin"
    THEN [status |-> 200,
          orders |-> {o \in orders :
                        /\ id_user # 0 => o.user_id = id_user
                        /\ order_date # 0 => o.created_at = order_date
                        /\ order_status # "" => o.status = order_status}]
    ELSE [status |-> 200,
          orders |-> {o \in orders : o.user_id = get_current_user_id(token)}]

\* create_order, lines 64-96: the reads and checks made before any write
CreateOrderChecks(user_id) ==
    IF UserCart(user_id) = {} THEN "Bad Request"
    ELSE LET cart == CHOOSE c \in UserCart(user_id) : TRUE
             len_movies_ids == BagCardinality(CartItemsOf(cart.id))
             movies_ids == CartMovieIds(user_id)
             ms == {m \in movies : m.id \in movies_ids}
         IN  IF ~MoviesResolved(ms, len_movies_ids) THEN "Invalid movies data"
             ELSE IF DuplicatePending(user_id, movies_ids, len_movies_ids)
             THEN "you already have order with the same movies"
             ELSE "ok"

\* the writes of a checkout that looks for a duplicate pending order once
\* more before it writes
CreateOrderWrite_rechecks(user_id, movies_ids, gateway) ==
    LET ms == {m \in movies : m.id \in movies_ids}
        order == NewOrder(user_id, ms)
    IN  IF DuplicatePending(user_id, movies_ids, Cardinality(movies_ids))
        THEN Rollback(400, "you already have order with the same movies")
        ELSE create_stripe_session(order, NewOrderItems(order, ms), user_id, gateway)

\* create_order, lines 98-120, of a request that read movies_ids from its cart
\* before other requests were served: the movies query runs again for the
\* total and for the items, then the payment session is created
CreateOrderWrite(user_id, movies_ids, gateway) ==
    LET ms == {m \in movies : m.id \in movies_ids}
        order == NewOrder(user_id, ms)
    IN  create_stripe_session(order, NewOrderItems(order, ms), user_id, gateway)

\* a refund that deletes the purchases of the order's movies of every user
refund_order_anyUser(user_id, order_id) ==
    IF ~\E o \in orders : o.id = order_id
    THEN Rollback(500, "Internal Server Error")
    ELSE LET order == CHOOSE o \in orders : o.id = order_id
             payment == CHOOSE p \in payments :
                            /\ p.order_id = order_id
                            /\ \A q \in payments : q.order_id = order_id => p.id <= q.id
             movie_ids == OrderMovieIds(order_id)
         IN  IF order.user_id # user_id \/ payment.status = "refunded"
             THEN Rollback(400, "Bad Request")
             ELSE [Rollback(200, "your order was refunded") EXCEPT
                     !.orders = (orders \ {order}) \cup
                                    {[order EXCEPT !.status = "canceled"]},
                     !.payments = (payments \ {payment}) \cup
                                    {[payment EXCEPT !.status = "refunded"]},
                     !.purchases = FilterBag(purchases,
                         LAMBDA r : r.movie_id \notin movie_ids)]

\* a refund that does not compare the order's user with the requesting user
refund_order_anyOwner(user_id, order_id) ==
    IF ~\E o \in orders : o.id = order_id
    THEN Rollback(500, "Internal Server Error")
    ELSE LET order == CHOOSE o \in orders : o.id = order_id
             payment == CHOOSE p \in payments :
                            /\ p.order_id = order_id
                            /\ \A q \in payments : q.order_id = order_id => p.id <= q.id
             movie_ids == OrderMovieIds(order_id)
         IN  IF payment.status = "refunded"
             THEN Rollback(400, "Bad Request")
             ELSE [Rollback(200, "your order was refunded") EXCEPT
                     !.orders = (orders \ {order}) \cup
                                    {[order EXCEPT !.status = "canceled"]},
                     !.payments = (payments \ {payment}) \cup
                                    {[payment EXCEPT !.status = "refunded"]},
                     !.purchases = FilterBag(purchases,
                         LAMBDA r : ~(r.movie_id \in movie_ids /\ r.user_id = user_id))]

\* a refund that leaves the status of the payment as it is
refund_order_paymentKept(user_id, order_id) ==
    IF ~\E o \in orders : o.id = order_id
    THEN Rollback(500, "Internal Server Error")
    ELSE LET order == CHOOSE o \in orders : o.id = order_id
             payment == CHOOSE p \in payments :
                            /\ p.order_id = order_id
                            /\ \A q \in payments : q.order_id = order_id => p.id <= q.id
             movie_ids == OrderMovieIds(order_id)
         IN  IF order.user_id # user_id \/ payment.status = "refunded"
             THEN Rollback(400, "Bad Request")
             ELSE [Rollback(200, "your order was refunded") EXCEPT
                     !.orders = (orders \ {order}) \cup
                                    {[order EXCEPT !.status = "canceled"]},
                     !.purchases = FilterBag(purchases,
                         LAMBDA r : ~(r.movie_id \in movie_ids /\ r.user_id = user_id))]

\* POST /orders/refund/
refund_order(user_id, order_id) ==
    IF ~\E o \in orders : o.id = order_id
    THEN \* order is None and order.user_id is read: AttributeError, not handled
         Rollback(500, "Internal Server Error")
    ELSE LET order == CHOOSE o \in orders : o.id = order_id
             payment == CHOOSE p \in payments :
                            /\ p.order_id = order_id
                            /\ \A q \in payments : q.order_id = order_id => p.id <= q.id
             movie_ids == OrderMovieIds(order_id)
         IN  IF order.user_id # user_id \/ payment.status = "refunded"
             THEN Rollback(400, "Bad Request")
             ELSE [Rollback(200, "your order was refunded") EXCEPT
                     !.orders = (orders \ {order}) \cup
                                    {[order EXCEPT !.status = "canceled"]},
                     !.payments = (payments \ {payment}) \cup
                                    {[payment EXCEPT !.status = "refunded"]},
                     !.purchases = FilterBag(purchases,
                         LAMBDA r : ~(r.movie_id \in movie_ids /\ r.user_id = user_id))]

\* ---------------------------------------------------------------- payments --
\* payment_success, lines 93-101: one Purchases row per order item is added
AddPurchases(user_id, movie_ids) ==
    purchases (+) SetToBag({[user_id |-> user_id, movie_id |-> m] : m \in movie_ids})

\* a success callback that leaves the cart of the user as it is
payment_success_cartKept(payment_id, gateway) ==
    IF ~\E p \in payments : p.id = payment_id
    THEN Rollback(404, "Not Found")
    ELSE IF gateway = "error"
    THEN Rollback(500, "Internal Server Error")
    ELSE LET payment == CHOOSE p \in payments : p.id = payment_id
             order == CHOOSE o \in orders : o.id = payment.order_id
             added == AddPurchases(payment.user_id, OrderMovieIds(order.id))
         IN  IF ~unique_purchases_constraint(added)
             THEN Rollback(500, "Internal Server Error")
             ELSE [Rollback(200, "Payment successful") EXCEPT
                     !.payments = (payments \ {payment}) \cup
                                    {[payment EXCEPT !.status = "successful"]},
                     !.orders = (orders \ {order}) \cup
                                    {[order EXCEPT !.status = "paid"]},
                     !.purchases = added]

\* GET /payments/success/
payment_success(payment_id, gateway) ==
    IF ~\E p \in payments : p.id = payment_id
    THEN Rollback(404, "Not Found")
    ELSE IF gateway = "error"
    THEN \* Session.retrieve raises; the session is discarded
         Rollback(500, "Internal Server Error")
    ELSE LET payment == CHOOSE p \in payments : p.id = payment_id
             order == CHOOSE o \in orders : o.id = payment.order_id
             added == AddPurchases(payment.user_id, OrderMovieIds(order.id))
         IN  IF UserCart(payment.user_id) = {}
             THEN \* db.delete(None): UnmappedInstanceError, a SQLAlchemyError
                  Rollback(500, "Internal Server Error")
             ELSE IF ~unique_purchases_constraint(added)
             THEN \* IntegrityError on flush
                  Rollback(500, "Internal Server Error")
             ELSE LET cart == CHOOSE c \in UserCart(payment.user_id) : TRUE
                  IN  [Rollback(200, "Payment successful") EXCEPT
                         !.payments = (payments \ {payment}) \cup
                                        {[payment EXCEPT !.status = "successful"]},
                         !.orders = (orders \ {order}) \cup
                                        {[order EXCEPT !.status = "paid"]},
                         !.purchases = added,
                         !.carts = carts \ {cart},
                         !.cart_items = DeleteCart(cart)]

\* a cancel callback that forgets the order of the payment
payment_cancel_orderKept(payment_id, gateway) ==
    IF ~\E p \in payments : p.id = payment_id
    THEN Rollback(404, "Not Found")
    ELSE IF gateway = "error"
    THEN Rollback(500, "Internal Server Error")
    ELSE LET payment == CHOOSE p \in payments : p.id = payment_id
         IN  [Rollback(200, "Payment was cancelled.") EXCEPT
                !.payments = (payments \ {payment}) \cup
                               {[payment EXCEPT !.status = "canceled"]}]

\* a cancel callback that answers an unknown payment id as if it had acted
payment_cancel_silent(payment_id, gateway) ==
    IF gateway = "error"
    THEN Rollback(500, "Internal Server Error")
    ELSE IF ~\E p \in payments : p.id = payment_id
    THEN Rollback(200, "Payment was cancelled.")
    ELSE LET payment == CHOOSE p \in payments : p.id = payment_id
             order == CHOOSE o \in orders : o.id = payment.order_id
         IN  [Rollback(200, "Payment was cancelled.") EXCEPT
                !.payments = (payments \ {payment}) \cup
                               {[payment EXCEPT !.status = "canceled"]},
                !.orders = (orders \ {order}) \cup
                               {[order EXCEPT !.status = "canceled"]}]

\* GET /payments/cancel/
payment_cancel(payment_id, gateway) ==
    IF ~\E p \in payments : p.id = payment_id
    THEN Rollback(404, "Not Found")
    ELSE IF gateway = "error"
    THEN Rollback(500, "Internal Server Error")
    ELSE LET payment == CHOOSE p \in payments : p.id = payment_id
             order == CHOOSE o \in orders : o.id = payment.order_id
         IN  [Rollback(200, "Payment was cancelled.") EXCEPT
                !.payments = (payments \ {payment}) \cup
                               {[payment EXCEPT !.status = "canceled"]},
                !.orders = (orders \ {order}) \cup
                               {[order EXCEPT !.status = "canceled"]}]

\* ---------------------------------------------------------------- accounts --
\* the answer of an accounts request that leaves the accounts tables as it
\* found them
AccRollback(status, detail) ==
    [status |-> status, detail |-> detail,
     users |-> users, activation_tokens |-> activation_tokens,
     password_reset_tokens |-> password_reset_tokens,
     refresh_tokens |-> refresh_tokens, next_token |-> next_token]

AccCommit(r) ==
    /\ users' = r.users
    /\ activation_tokens' = r.activation_tokens
    /\ password_reset_tokens' = r.password_reset_tokens
    /\ refresh_tokens' = r.refresh_tokens
    /\ next_token' = r.next_token

AccSame(r) == r = AccRollback(r.status, r.detail)

\* db.query(UserModel).filter_by(email=...).first(), as a set of at most one row
UserByEmail(email) == {u \in users : u.email = email}

\* TokenBaseModel: token from generate_secure_token, expires_at one day ahead
NewToken(user_id) ==
    [user_id |-> user_id, token |-> next_token, expires_at |-> now + 1]

\* expires_at < datetime.now(timezone.utc)
Expired(t) == t.expires_at < now

\* POST /accounts/register/
register_user(email, password) ==
    IF UserByEmail(email) # {}
    THEN AccRollback(409, "A user with this email already exists.")
    ELSE LET new_user == [id |-> NextId(users), email |-> email,
                          is_active |-> FALSE, password |-> password]
         IN  [AccRollback(201, "") EXCEPT
                !.users = users \cup {new_user},
                !.activation_tokens = activation_tokens \cup {NewToken(new_user.id)},
                !.next_token = next_token + 1]

\* GET /accounts/activate/{activation_token}/
activate_account(activation_token) ==
    LET found == {t \in activation_tokens : t.token = activation_token}
    IN  IF found = {}
        THEN AccRollback(400, "Invalid or expired activation token.")
        ELSE LET token_record == CHOOSE t \in found : TRUE
                 user == CHOOSE u \in users : u.id = token_record.user_id
             IN  IF Expired(token_record)
                 THEN [AccRollback(400, "Invalid or expired activation token.") EXCEPT
                         !.activation_tokens = activation_tokens \ {token_record}]
                 ELSE IF user.is_active
                 THEN AccRollback(400, "User account is already active.")
                 ELSE [AccRollback(200, "User account activated successfully.") EXCEPT
                         !.users = (users \ {user}) \cup
                                       {[user EXCEPT !.is_active = TRUE]},
                         !.activation_tokens = activation_tokens \ {token_record}]

\* the periodic task: expired activation tokens are deleted
check_expired_activation_tokens ==
    [AccRollback(0, "") EXCEPT
        !.activation_tokens = {t \in activation_tokens : ~Expired(t)}]

\* POST /accounts/resend_activation_token/
resend_activation_token(email) ==
    IF UserByEmail(email) = {}
    THEN AccRollback(404, "User not found.")
    ELSE LET db_user == CHOOSE u \in UserByEmail(email) : TRUE
         IN  IF \E t \in activation_tokens : t.user_id = db_user.id
             THEN AccRollback(400, "Activation token is still valid.")
             ELSE [AccRollback(200, "Activation token resent successfully.") EXCEPT
                     !.activation_tokens = activation_tokens \cup {NewToken(db_user.id)},
                     !.next_token = next_token + 1]

\* POST /accounts/password-reset/request/
request_password_reset_token(email) ==
    IF UserByEmail(email) = {} \/ \E u \in UserByEmail(email) : ~u.is_active
    THEN AccRollback(200, "If you are registered, you will receive an email with instructions.")
    ELSE LET user == CHOOSE u \in UserByEmail(email) : TRUE
         IN  [AccRollback(200, "If you are registered, you will receive an email with instructions.") EXCEPT
                !.password_reset_tokens =
                    {t \in password_reset_tokens : t.user_id # user.id}
                        \cup {NewToken(user.id)},
                !.next_token = next_token + 1]

\* POST /accounts/reset-password/complete/
reset_password(email, token, password) ==
    IF UserByEmail(email) = {} \/ \E u \in UserByEmail(email) : ~u.is_active
    THEN AccRollback(400, "Invalid email or token.")
    ELSE LET user == CHOOSE u \in UserByEmail(email) : TRUE
             found == {t \in password_reset_tokens : t.user_id = user.id}
         IN  IF found = {}
             THEN \* token_record is None and token_record.expires_at is read
                  \* (line 330): AttributeError, not handled
                  AccRollback(500, "Internal Server Error")
             ELSE LET token_record == CHOOSE t \in found : TRUE
                  IN  IF token_record.token # token \/ Expired(token_record)
                      THEN [AccRollback(400, "Invalid email or token.") EXCEPT
                              !.password_reset_tokens =
                                  password_reset_tokens \ {token_record}]
                      ELSE [AccRollback(200, "Password reset successfully.") EXCEPT
                              !.users = (users \ {user}) \cup
                                            {[user EXCEPT !.password = password]},
                              !.password_reset_tokens =
                                  password_reset_tokens \ {token_record}]

\* POST /accounts/login/
login_user(email, password) ==
    IF UserByEmail(email) = {} \/ \E u \in UserByEmail(email) : u.password # password
    THEN AccRollback(401, "Invalid email or password.")
    ELSE LET user == CHOOSE u \in UserByEmail(email) : TRUE
         IN  IF ~user.is_active
             THEN AccRollback(403, "User account is not activated.")
             ELSE [AccRollback(201, "") EXCEPT
                     !.refresh_tokens = refresh_tokens \cup
                         {[user_id |-> user.id, token |-> next_token]},
                     !.next_token = next_token + 1]

\* db.query(RefreshTokenModel).filter_by(user_id=...).first(): no row, or any
\* one row of the user (the query sets no order)
FirstRefreshToken(user_id) ==
    IF \E t \in refresh_tokens : t.user_id = user_id
    THEN {{t} : t \in {x \in refresh_tokens : x.user_id = user_id}}
    ELSE {{}}

\* POST /accounts/logout/ of the user of the access token, the query of line
\* 486 returning refresh_token_record (a set of at most one row)
logout_user(current_user_id, refresh_token_record) ==
    IF ~\E u \in users : u.id = current_user_id
    THEN AccRollback(404, "User not found")
    ELSE IF refresh_token_record = {}
    THEN AccRollback(401, "Refresh token not found.")
    ELSE [AccRollback(204, "") EXCEPT
            !.refresh_tokens = refresh_tokens \ refresh_token_record]

\* db.query(RefreshTokenModel).filter_by(token=...).first() finds a row
RefreshTokenFound(rows, refresh_token) == \E t \in rows : t.token = refresh_token

\* POST /accounts/refresh/ with a token that decodes to user_id (0: the token
\* does not decode)
refresh_access_token(refresh_token, user_id) ==
    IF user_id = 0
    THEN AccRollback(400, "Invalid token")
    ELSE IF ~RefreshTokenFound(refresh_tokens, refresh_token)
    THEN AccRollback(401, "Refresh token not found.")
    ELSE IF ~\E u \in users : u.id = user_id
    THEN AccRollback(404, "User not found.")
    ELSE AccRollback(200, "")

\* ----------------------------------------------------------------- actions --
\* the model stops allocating keys beyond its bounds
WithinBounds(r) ==
    /\ \A m \in r.movies : m.id <= MaxMovies
    /\ \A c \in r.carts : c.id <= MaxCarts
    /\ \A o \in r.orders : o.id <= MaxOrders

CreateMovie(P) == \E p \in P :
        LET r == create_movie(p)
        IN  WithinBounds(r) /\ Commit(r) /\ UNCHANGED <<inflight, accounts, now>>

UpdateMovie(P) == \E m \in MovieIds, p \in P :
        LET r == update_movie(m, p)
        IN  WithinBounds(r) /\ Commit(r) /\ UNCHANGED <<inflight, accounts, now>>

DeleteMovie == \E m \in MovieIds :
        LET r == delete_movie(m)
        IN  WithinBounds(r) /\ Commit(r) /\ UNCHANGED <<inflight, accounts, now>>

AddItem(U) == \E u \in U, m \in MovieIds :
        LET r == create_or_update_cart(u, m)
        IN  WithinBounds(r) /\ Commit(r) /\ UNCHANGED <<inflight, accounts, now>>

RemoveItem(U) == \E u \in U, m \in MovieIds :
        LET r == remove_movie_from_cart(u, m)
        IN  WithinBounds(r) /\ Commit(r) /\ UNCHANGED <<inflight, accounts, now>>

RemoveCart(U) == \E u \in U, c \in CartIds :
        LET r == remove_cart(u, c)
        IN  WithinBounds(r) /\ Commit(r) /\ UNCHANGED <<inflight, accounts, now>>

CreateOrder(U) == \E u \in U, g \in Gateway :
        LET r == create_order(u, g)
        IN  WithinBounds(r) /\ Commit(r) /\ UNCHANGED <<inflight, accounts, now>>

RefundOrder(U) == \E u \in U, o \in OrderIds :
        LET r == refund_order(u, o)
        IN  WithinBounds(r) /\ Commit(r) /\ UNCHANGED <<inflight, accounts, now>>

PaymentSuccess == \E p \in OrderIds, g \in Gateway :
        LET r == payment_success(p, g)
        IN  WithinBounds(r) /\ Commit(r) /\ UNCHANGED <<inflight, accounts, now>>

PaymentCancel == \E p \in OrderIds, g \in Gateway :
        LET r == payment_cancel(p, g)
        IN  WithinBounds(r) /\ Commit(r) /\ UNCHANGED <<inflight, accounts, now>>

\* the model stops issuing tokens beyond its bound
AccWithinBounds(r) == r.next_token <= MaxTokens + 1

RegisterUser == \E e \in Emails, pw \in {1} :
        LET r == register_user(e, pw)
        IN  AccWithinBounds(r) /\ AccCommit(r) /\ UNCHANGED <<tables, inflight, now>>

ActivateAccount == \E t \in TokenValues :
        LET r == activate_account(t)
        IN  AccWithinBounds(r) /\ AccCommit(r) /\ UNCHANGED <<tables, inflight, now>>

CheckExpiredActivationTokens ==
        LET r == check_expired_activation_tokens
        IN  AccWithinBounds(r) /\ AccCommit(r) /\ UNCHANGED <<tables, inflight, now>>

ResendActivationToken == \E e \in Emails :
        LET r == resend_activation_token(e)
        IN  AccWithinBounds(r) /\ AccCommit(r) /\ UNCHANGED <<tables, inflight, now>>

RequestPasswordResetToken == \E e \in Emails :
        LET r == request_password_reset_token(e)
        IN  AccWithinBounds(r) /\ AccCommit(r) /\ UNCHANGED <<tables, inflight, now>>

ResetPassword == \E e \in Emails, t \in TokenValues, pw \in Passwords :
        LET r == reset_password(e, t, pw)
        IN  AccWithinBounds(r) /\ AccCommit(r) /\ UNCHANGED <<tables, inflight, now>>

LoginUser == \E e \in Emails, pw \in Passwords :
        LET r == login_user(e, pw)
        IN  AccWithinBounds(r) /\ AccCommit(r) /\ UNCHANGED <<tables, inflight, now>>

LogoutUser == \E u \in Emails : \E rec \in FirstRefreshToken(u) :
        LET r == logout_user(u, rec)
        IN  AccWithinBounds(r) /\ AccCommit(r) /\ UNCHANGED <<tables, inflight, now>>

RefreshAccessToken == \E t \in refresh_tokens \cup {[user_id |-> 0, token |-> 0]} :
        LET r == refresh_access_token(t.token, t.user_id)
        IN  AccWithinBounds(r) /\ AccCommit(r) /\ UNCHANGED <<tables, inflight, now>>

\* a read-only request: it answers and leaves every table as it is
GetOrders(U) ==
    \E t \in U \cup {0}, g \in {"none", "user", "admin"},
       u \in U \cup {0}, d \in {0, now}, st \in {"", "paid"} :
        /\ get_orders(t, g, u, d, st).status \in {200, 401}
        /\ UNCHANGED vars

\* a day passes
Tick ==
    /\ now < MaxNow
    /\ now' = now + 1
    /\ UNCHANGED <<tables, inflight, accounts>>

\* create_or_update_cart up to line 41, when another request is served before
\* its writes
AddItemBegin(U) ==
    \E u \in U, m \in MovieIds :
        /\ Cardinality(inflight) < MaxInflight
        /\ AddItemChecks(u, m) = "ok"
        /\ inflight' = inflight \cup
                {[op |-> "add_item", user_id |-> u, movie_id |-> m,
                  cart |-> UserCart(u), movies_ids |-> {}]}
        /\ UNCHANGED <<tables, accounts, now>>

\* the rest of that request, which read the user's cart before or after the
\* other requests were served; the database may or may not enforce foreign keys
AddItemFinish ==
    \E req \in inflight, fk \in BOOLEAN :
        \E seen \in {req.cart, UserCart(req.user_id)} :
            LET r == AddItemWriteSeen(req.user_id, req.movie_id, seen, fk)
            IN  /\ req.op = "add_item"
                /\ WithinBounds(r)
                /\ Commit(r)
                /\ inflight' = inflight \ {req}
                /\ UNCHANGED <<accounts, now>>

\* create_order up to line 96, when another request is served before its writes
CreateOrderBegin(U) ==
    \E u \in U :
        /\ Cardinality(inflight) < MaxInflight
        /\ CreateOrderChecks(u) = "ok"
        /\ inflight' = inflight \cup
                {[op |-> "create_order", user_id |-> u, movie_id |-> 0,
                  cart |-> {}, movies_ids |-> CartMovieIds(u)]}
        /\ UNCHANGED <<tables, accounts, now>>

\* the rest of that request
CreateOrderFinish ==
    \E req \in inflight, g \in Gateway :
        LET r == CreateOrderWrite(req.user_id, req.movies_ids, g)
        IN  /\ req.op = "create_order"
            /\ WithinBounds(r)
            /\ Commit(r)
            /\ inflight' = inflight \ {req}
            /\ UNCHANGED <<accounts, now>>

\* ------------------------------------------------------------ specifications --
\* the requests of the users U, with the catalog prices P, one after the other
Step(U, P) ==
    \/ CreateMovie(P)
    \/ UpdateMovie(P)
    \/ DeleteMovie
    \/ AddItem(U)
    \/ RemoveItem(U)
    \/ RemoveCart(U)
    \/ CreateOrder(U)
    \/ RefundOrder(U)
    \/ PaymentSuccess
    \/ PaymentCancel

\* two users and one catalog price
Next == Step(Users, {1})

Spec == Init /\ [][Next]_vars

\* one user and two catalog prices
NextPrices == Step({1}, Prices)

SpecPrices == Init /\ [][NextPrices]_vars

\* one user, one price; add-to-cart requests may be overtaken between their
\* checks and their writes
NextRace == Step({1}, {1}) \/ AddItemBegin({1}) \/ AddItemFinish

SpecRace == Init /\ [][NextRace]_vars

\* one user, one price; checkout requests may be overtaken between their
\* checks and their writes
NextCheckout == Step({1}, {1}) \/ CreateOrderBegin({1}) \/ CreateOrderFinish

SpecCheckout == Init /\ [][NextCheckout]_vars

\* two users and one price over several days, with the order listing
NextListing ==
    \/ CreateMovie({1})
    \/ AddItem(Users)
    \/ CreateOrder(Users)
    \/ PaymentSuccess
    \/ GetOrders(Users)
    \/ Tick

SpecListing == Init /\ [][NextListing]_vars

\* the accounts requests, the periodic task and the clock
NextAccounts ==
    \/ RegisterUser
    \/ ActivateAccount
    \/ CheckExpiredActivationTokens
    \/ ResendActivationToken
    \/ RequestPasswordResetToken
    \/ ResetPassword
    \/ LoginUser
    \/ LogoutUser
    \/ RefreshAccessToken
    \/ Tick

SpecAccounts == Init /\ [][NextAccounts]_vars

\* ------------------------------------------------------------------ claims --
\* the rows create_order may write
OrderTablesKept(r) ==
    /\ r.orders = orders
    /\ r.order_items = order_items
    /\ r.payments = payments
    /\ r.payment_items = payment_items

\* the order a successful create_order added, and its rows
CreatedOrder(r) == CHOOSE o \in r.orders : o \notin orders
CreatedItems(r) == {i \in r.order_items : i.order_id = CreatedOrder(r).id}
CreatedPayments(r) == {p \in r.payments : p.order_id = CreatedOrder(r).id}

\* the user has a cart row and, in it, a movie the catalog no longer holds
CartHasMissingMovie(u) == \E m \in CartMovieIds(u) : ~MovieExists(m)

\* C1: create_order of a user who has no cart, or a cart without items, is
\* answered 400 and writes no Order, OrderItem or Payment row.
C1_EmptyOrAbsentCartRefused ==
    \A u \in Users, g \in Gateway :
        CartMovieIds(u) = {} =>
            LET r == create_order(u, g)
            IN  r.status = 400 /\ OrderTablesKept(r)

\* C2: when the user has a pending order whose movie set equals the movie set
\* of the cart, create_order is answered 400 and the Order, OrderItem and
\* Payment rows stay as they are.
C2_DuplicatePendingRefused ==
    \A u \in Users, g \in Gateway :
        (\E o \in orders : /\ o.user_id = u
                           /\ o.status = "pending"
                           /\ OrderMovieIds(o.id) = CartMovieIds(u)) =>
            LET r == create_order(u, g)
            IN  r.status = 400 /\ OrderTablesKept(r)

C2_Witness ==
    \E u \in Users :
        /\ CartMovieIds(u) # {}
        /\ \E o \in orders : /\ o.user_id = u
                             /\ o.status = "pending"
                             /\ OrderMovieIds(o.id) = CartMovieIds(u)
        /\ create_order(u, "ok").detail = "you already have order with the same movies"

\* C3: the order a successful create_order adds has one OrderItem per cart
\* item, each priced at the movie's catalog price of that moment, and a
\* total_amount equal to the sum of its items' price_at_order; every stored
\* order keeps total_amount equal to that sum.
C3_TotalIsSumOfSnapshots ==
    /\ \A o \in orders : o.total_amount = SumPriceAtOrder(OrderItemsOf(o.id))
    /\ \A u \in Users, g \in Gateway :
         LET r == create_order(u, g)
         IN  r.status = 201 =>
               /\ Cardinality(r.orders \ orders) = 1
               /\ r.order_items \ CreatedItems(r) = order_items
               /\ {i.movie_id : i \in CreatedItems(r)} = CartMovieIds(u)
               /\ Cardinality(CreatedItems(r)) = Cardinality(CartMovieIds(u))
               /\ \A i \in CreatedItems(r) :
                     \E m \in movies : m.id = i.movie_id /\ m.price = i.price_at_order
               /\ CreatedOrder(r).total_amount = SumPriceAtOrder(CreatedItems(r))

\* a movie of the cart was ordered before at another price than the catalog
\* holds now, and checkout of the cart succeeds at the present price
C3_Witness ==
    \E u \in Users :
        /\ \E i \in order_items, m \in movies :
              /\ i.movie_id \in CartMovieIds(u)
              /\ m.id = i.movie_id
              /\ m.price # i.price_at_order
        /\ Cardinality(CartMovieIds(u)) = 2
        /\ create_order(u, "ok").status = 201

\* C4: a successful create_order adds a pending order with exactly one
\* Payment, pending, of the order's total_amount, and one PaymentItem per
\* OrderItem carrying that item's price_at_order; every stored order has
\* exactly one Payment.
C4_OnePendingPaymentPerOrder ==
    /\ \A o \in orders : Cardinality({p \in payments : p.order_id = o.id}) = 1
    /\ \A u \in Users, g \in Gateway :
         LET r == create_order(u, g)
         IN  r.status = 201 =>
               /\ CreatedOrder(r).status = "pending"
               /\ Cardinality(CreatedPayments(r)) = 1
               /\ r.payments \ CreatedPayments(r) = payments
               /\ \A p \in CreatedPayments(r) :
                     /\ p.status = "pending"
                     /\ p.user_id = u
                     /\ p.amount = CreatedOrder(r).total_amount
                     /\ {[order_item_id |-> pi.order_item_id,
                          price_at_payment |-> pi.price_at_payment]
                         : pi \in {x \in r.payment_items : x.payment_id = p.id}}
                        = {[order_item_id |-> i.id,
                            price_at_payment |-> i.price_at_order]
                           : i \in CreatedItems(r)}
                     /\ r.payment_items \ {x \in r.payment_items : x.payment_id = p.id}
                        = payment_items

\* a pending order of two movies at different prices is stored with its payment
C4_Witness ==
    \E o \in orders, p \in payments :
        /\ p.order_id = o.id
        /\ p.amount = 3
        /\ o.status = "pending"
        /\ p.status = "pending"
        /\ Cardinality({x \in payment_items : x.payment_id = p.id}) = 2

\* C5: create_order, answered with success or failure, leaves the Cart and
\* CartItem rows as they are, and so does every request other than the
\* payment success callback and the user's own removal of a cart or an item.
C5_CartKeptByCreateOrder ==
    /\ \A u \in Users, g \in Gateway :
         LET r == create_order(u, g)
         IN  r.carts = carts /\ r.cart_items = cart_items
    /\ \A u \in Users, o \in OrderIds :
         LET r == refund_order(u, o)
         IN  r.carts = carts /\ r.cart_items = cart_items
    /\ \A p \in OrderIds, g \in Gateway :
         LET r == payment_cancel(p, g)
         IN  r.carts = carts /\ r.cart_items = cart_items
    /\ \A m \in MovieIds, p \in Prices :
         /\ update_movie(m, p).carts = carts
         /\ update_movie(m, p).cart_items = cart_items
         /\ delete_movie(m).carts = carts
         /\ delete_movie(m).cart_items = cart_items
    /\ \A u \in Users, m \in MovieIds :
         LET r == create_or_update_cart(u, m)
         IN  carts \subseteq r.carts /\ cart_items \sqsubseteq r.cart_items

\* an order was created from a cart and is pending, and the cart still holds
\* the ordered movies
C5_Witness ==
    \E o \in orders :
        /\ o.status = "pending"
        /\ OrderMovieIds(o.id) # {}
        /\ UserCart(o.user_id) # {}
        /\ OrderMovieIds(o.id) = CartMovieIds(o.user_id)

\* C6: a create_order that is not answered 201, the gateway failing after
\* the Order and Payment rows were flushed included, leaves every table as it
\* was before the call.
C6_FailedCreateOrderLeavesNothing ==
    \A u \in Users, g \in Gateway :
        LET r == create_order(u, g)
        IN  r.status # 201 => SameTables(r)

\* a checkout that passes every check and whose gateway call fails
C6_Witness ==
    \E u \in Users :
        /\ create_order(u, "ok").status = 201
        /\ create_order(u, "error").status = 500
        /\ CartMovieIds(u) # {}

\* C7: when the cart holds a movie that is not in the catalog, create_order
\* is answered 400 "Invalid movies data" and writes no Order, OrderItem or
\* Payment row.
C7_MissingMovieRefused ==
    \A u \in Users, g \in Gateway :
        CartHasMissingMovie(u) =>
            LET r == create_order(u, g)
            IN  /\ r.status = 400
                /\ r.detail = "Invalid movies data"
                /\ OrderTablesKept(r)

C7_Witness ==
    \E u \in Users :
        /\ CartHasMissingMovie(u)
        /\ create_order(u, "ok").detail = "Invalid movies data"

\* C8: for every stored payment, the success callback (the gateway answering)
\* sets the Payment successful and its Order paid, adds one Purchase row per
\* movie of the order and deletes the user's cart, whatever the cart is.
C8_SuccessAlwaysSettles ==
    \A p \in payments :
        LET r == payment_success(p.id, "ok")
        IN  /\ r.status = 200
            /\ \E q \in r.payments : q.id = p.id /\ q.status = "successful"
            /\ \E o \in r.orders : o.id = p.order_id /\ o.status = "paid"
            /\ \A m \in OrderMovieIds(p.order_id) :
                  BagIn([user_id |-> p.user_id, movie_id |-> m], r.purchases)
            /\ ~\E c \in r.carts : c.user_id = p.user_id

\* C9: no two Purchase rows have the same (user_id, movie_id).
C9_OnePurchasePerUserMovie ==
    \A row \in DOMAIN purchases : purchases[row] = 1

\* the success callback of a payment is about to add a Purchase row that is
\* already stored, and the user has a cart
C9_Witness ==
    \E p \in payments :
        /\ UserCart(p.user_id) # {}
        /\ \E m \in OrderMovieIds(p.order_id) :
              BagIn([user_id |-> p.user_id, movie_id |-> m], purchases)
        /\ payment_success(p.id, "ok").status = 500

\* C10: the success callback of a payment that is already successful is not
\* answered with a 5xx status and leaves every table as it is.
C10_ReplayIsNoServerError ==
    \A p \in payments :
        p.status = "successful" =>
            LET r == payment_success(p.id, "ok")
            IN  r.status < 500 /\ SameTables(r)

\* C11: the cancel callback of a stored payment, the gateway answering, is
\* answered 200, sets that Payment canceled and its Order canceled and leaves
\* every other Payment and Order, the Purchase rows, the carts and their
\* items, the order items and the payment items as they are; when the gateway
\* fails it leaves everything as it is.
C11_CancelTouchesOnlyItsPair ==
    \A p \in payments, g \in Gateway :
        LET r == payment_cancel(p.id, g)
        IN  /\ g = "ok" =>
                 /\ r.status = 200
                 /\ r.payments = {IF q.id = p.id THEN [q EXCEPT !.status = "canceled"]
                                  ELSE q : q \in payments}
                 /\ r.orders = {IF o.id = p.order_id THEN [o EXCEPT !.status = "canceled"]
                                ELSE o : o \in orders}
            /\ g = "error" => SameTables(r)
            /\ r.purchases = purchases
            /\ r.carts = carts
            /\ r.cart_items = cart_items
            /\ r.order_items = order_items
            /\ r.payment_items = payment_items
            /\ r.movies = movies

\* a payment and its order are canceled while the user still has a cart with
\* items, a purchase and another order
C11_Witness ==
    \E p \in payments, o \in orders :
        /\ p.status = "canceled"
        /\ o.id = p.order_id
        /\ o.status = "canceled"
        /\ CartMovieIds(p.user_id) # {}
        /\ purchases # EmptyBag
        /\ \E o2 \in orders : o2.id # o.id /\ o2.status = "paid"

\* C12: a success or cancel callback whose payment_id is the id of no Payment
\* row is answered 404 and leaves every table as it is.
C12_UnknownPaymentNotFound ==
    \A pid \in 1..(MaxOrders + 1), g \in Gateway :
        (~\E p \in payments : p.id = pid) =>
            /\ payment_success(pid, g).status = 404
            /\ SameTables(payment_success(pid, g))
            /\ payment_cancel(pid, g).status = 404
            /\ SameTables(payment_cancel(pid, g))

\* one payment is stored, its user has a cart, and a callback names another id
C12_Witness ==
    \E p \in payments, pid \in OrderIds :
        /\ p.status = "pending"
        /\ UserCart(p.user_id) # {}
        /\ ~\E q \in payments : q.id = pid
        /\ payment_success(pid, "ok").status = 404
        /\ payment_cancel(pid, "ok").status = 404

\* C13: a refund answered 200 sets the Order canceled and its Payment
\* refunded, leaves the other orders and payments as they are, and removes
\* the Purchase rows of the requesting user for the movies of the order and
\* no other Purchase row.
C13_RefundRemovesItsPurchases ==
    \A u \in Users, o \in orders :
        LET r == refund_order(u, o.id)
            gone(row) == row.user_id = u /\ row.movie_id \in OrderMovieIds(o.id)
        IN  r.status = 200 =>
              /\ r.orders = {IF x.id = o.id THEN [x EXCEPT !.status = "canceled"]
                             ELSE x : x \in orders}
              /\ r.payments = {IF q.order_id = o.id THEN [q EXCEPT !.status = "refunded"]
                               ELSE q : q \in payments}
              /\ \E q \in payments : q.order_id = o.id
              /\ DOMAIN r.purchases = {row \in DOMAIN purchases : ~gone(row)}
              /\ \A row \in DOMAIN r.purchases : r.purchases[row] = purchases[row]

\* an order is refunded, its user holds no purchase of its movies, and another
\* user still holds a purchase of one of them
C13_Witness ==
    \E o \in orders, p \in payments :
        /\ p.order_id = o.id
        /\ p.status = "refunded"
        /\ o.status = "canceled"
        /\ OrderMovieIds(o.id) # {}
        /\ \A m \in OrderMovieIds(o.id) :
              ~BagIn([user_id |-> o.user_id, movie_id |-> m], purchases)
        /\ \E row \in DOMAIN purchases :
              row.user_id # o.user_id /\ row.movie_id \in OrderMovieIds(o.id)

\* C14: a refund of a stored order requested by a user who does not own it,
\* or of an order whose payment is refunded, is answered 400 and leaves every
\* table as it is.
C14_RefundRefused ==
    \A u \in Users, o \in orders :
        (\/ o.user_id # u
         \/ \E p \in payments : p.order_id = o.id /\ p.status = "refunded") =>
            LET r == refund_order(u, o.id)
            IN  r.status = 400 /\ SameTables(r)

\* a paid order whose refund another user requests, next to a refunded order
\* whose owner requests the refund again
C14_Witness ==
    /\ \E u \in Users, o \in orders :
          /\ o.user_id # u
          /\ o.status = "paid"
          /\ purchases # EmptyBag
          /\ refund_order(u, o.id).status = 400
    /\ \E o \in orders, p \in payments :
          /\ p.order_id = o.id
          /\ p.status = "refunded"
          /\ refund_order(o.user_id, o.id).status = 400

\* C15: add_item is answered 400 and leaves the Cart and CartItem rows as they
\* are when the movie is not in the catalog, when the user holds a Purchase
\* row for it, or when it is in the user's cart; otherwise it is answered
\* 200, creates the user's cart only if there is none, and adds exactly one
\* CartItem, of that movie in that cart.
C15_AddItemCases ==
    \A u \in Users, m \in 1..(MaxMovies + 1) :
        LET r == create_or_update_cart(u, m)
            refused == \/ ~MovieExists(m)
                       \/ BagIn([user_id |-> u, movie_id |-> m], purchases)
                       \/ m \in CartMovieIds(u)
        IN  /\ refused => r.status = 400 /\ SameTables(r)
            /\ ~refused =>
                 /\ r.status = 200
                 /\ UserCart(u) # {} => r.carts = carts
                 /\ \E c \in r.carts :
                       /\ c.user_id = u
                       /\ r.carts = carts \cup {c}
                       /\ r.cart_items = cart_items (+)
                             SetToBag({[cart_id |-> c.id, movie_id |-> m]})
                 /\ r.movies = movies /\ r.purchases = purchases /\ OrderTablesKept(r)

\* one state holds the three refusals: a user who bought a movie asks for it
\* again, a user asks for the movie of the cart, a user asks for a movie the
\* catalog does not hold
C15_Witness ==
    /\ \E u \in Users, m \in MovieIds :
          /\ MovieExists(m)
          /\ BagIn([user_id |-> u, movie_id |-> m], purchases)
          /\ create_or_update_cart(u, m).detail = "You have already bought this movie("
    /\ \E u \in Users, m \in MovieIds :
          /\ m \in CartMovieIds(u)
          /\ create_or_update_cart(u, m).detail = "Invalid data"
    /\ \E u \in Users, m \in MovieIds :
          /\ ~MovieExists(m)
          /\ create_or_update_cart(u, m).detail = "Invalid input data."

\* C16: in every state, requests overtaking an add_item between its reads and
\* its writes included, a user has at most one Cart row and a cart has at
\* most one CartItem per movie.
C16_OneCartOneItemPerMovie ==
    /\ \A u \in Users : Cardinality(UserCart(u)) <= 1
    /\ \A row \in DOMAIN cart_items : cart_items[row] = 1

\* an add_item that saw no cart is about to write after another request
\* created the user's cart and put the same movie in it
C16_Witness ==
    \E req \in inflight :
        /\ req.op = "add_item"
        /\ req.cart = {}
        /\ UserCart(req.user_id) # {}
        /\ req.movie_id \in CartMovieIds(req.user_id)
        /\ AddItemWriteSeen(req.user_id, req.movie_id, req.cart, TRUE).status = 400

\* C17: remove_item of a movie of the catalog is answered 400 "Invalid data"
\* and leaves every table as it is when the user has no cart or the cart has
\* no item of the movie; when the item is there it is answered 200, deletes
\* that CartItem and keeps the cart and its other items.
C17_RemoveItemCases ==
    \A u \in Users, m \in MovieIds :
        LET r == remove_movie_from_cart(u, m)
        IN  MovieExists(m) =>
              IF m \in CartMovieIds(u)
              THEN /\ r.status = 200
                   /\ r.carts = carts
                   /\ \E c \in UserCart(u) :
                         r.cart_items (+) SetToBag({[cart_id |-> c.id, movie_id |-> m]})
                            = cart_items
              ELSE /\ r.status = 400
                   /\ r.detail = "Invalid data"
                   /\ SameTables(r)

\* C18: a checkout that passed its checks and writes, the gateway answering,
\* after another checkout of the same user committed a pending order of the
\* same movies is answered 201 and leaves two pending orders of that user
\* with the same movie set.
C18_OvertakenCheckoutDuplicates ==
    \A req \in inflight, o \in orders :
        (/\ req.op = "create_order"
         /\ o.user_id = req.user_id
         /\ o.status = "pending"
         /\ OrderMovieIds(o.id) = req.movies_ids) =>
            LET r == CreateOrderWrite(req.user_id, req.movies_ids, "ok")
            IN  /\ r.status = 201
                /\ \E o2 \in r.orders :
                      /\ o2.id # o.id
                      /\ o2.user_id = o.user_id
                      /\ o2.status = "pending"
                      /\ o \in r.orders
                      /\ {i.movie_id : i \in {x \in r.order_items : x.order_id = o2.id}}
                         = OrderMovieIds(o.id)

\* two pending orders of one user hold the same movies, and no request is
\* left in flight
C18_Witness ==
    \E o1 \in orders, o2 \in orders :
        /\ o1.id # o2.id
        /\ o1.user_id = o2.user_id
        /\ o1.status = "pending"
        /\ o2.status = "pending"
        /\ OrderMovieIds(o1.id) # {}
        /\ OrderMovieIds(o1.id) = OrderMovieIds(o2.id)
        /\ inflight = {}

\* C19: delete_movie of a movie that has a Purchase row is answered 403 and
\* leaves every table as it is, and every Purchase row names a movie of the
\* catalog.
C19_PurchasedMovieStays ==
    /\ \A m \in MovieIds :
          (\E row \in DOMAIN purchases : row.movie_id = m) =>
              /\ delete_movie(m).status = 403
              /\ SameTables(delete_movie(m))
    /\ \A row \in DOMAIN purchases : MovieExists(row.movie_id)

\* a purchased movie whose deletion is refused, next to a movie that can be
\* deleted
C19_Witness ==
    /\ \E row \in DOMAIN purchases : delete_movie(row.movie_id).status = 403
    /\ \E m \in MovieIds : delete_movie(m).status = 204

\* C20: no step changes or removes an OrderItem or a PaymentItem, so their
\* price_at_order and price_at_payment stay as written, and no step changes
\* the total_amount of an Order or the amount and the order of a Payment.
C20_SnapshotsImmutable ==
    [][/\ order_items \subseteq order_items'
       /\ payment_items \subseteq payment_items'
       /\ \A o \in orders :
             \E o2 \in orders' : o2.id = o.id /\ o2.total_amount = o.total_amount
       /\ \A p \in payments :
             \E p2 \in payments' : /\ p2.id = p.id
                                   /\ p2.amount = p.amount
                                   /\ p2.order_id = p.order_id]_vars

\* the catalog price of an ordered movie is no longer the price of its order
\* item and of its payment item
C20_Witness ==
    \E i \in order_items, m \in movies, x \in payment_items :
        /\ m.id = i.movie_id
        /\ m.price # i.price_at_order
        /\ x.order_item_id = i.id
        /\ x.price_at_payment = i.price_at_order

\* C21: get_orders called by a user who is not an admin returns exactly the
\* orders of that user, whatever the filter parameters are; called by an
\* admin it returns the orders of all users that pass the user, date and
\* status filters given; called without a valid token it is answered 401.
C21_ListingScopedToCaller ==
    \A g \in {"user", "moderator", "admin"}, u \in Users \cup {0},
       d \in 0..MaxNow, st \in {"", "pending", "paid", "canceled"} :
        /\ get_orders(0, g, u, d, st).status = 401
        /\ \A t \in Users :
              LET r == get_orders(t, g, u, d, st)
              IN  /\ r.status = 200
                  /\ g # "admin" => r.orders = {o \in orders : o.user_id = t}
                  /\ g = "admin" =>
                        /\ r.orders \subseteq orders
                        /\ \A o \in orders :
                              o \in r.orders <=>
                                 /\ u = 0 \/ o.user_id = u
                                 /\ d = 0 \/ o.created_at = d
                                 /\ st = "" \/ o.status = st

\* two users have orders of different days and statuses; a user asking for the
\* other user's orders gets only their own, and an admin's filters select one
C21_Witness ==
    \E o1 \in orders, o2 \in orders :
        /\ o1.user_id # o2.user_id
        /\ o1.created_at # o2.created_at
        /\ o1.status # o2.status
        /\ get_orders(o1.user_id, "user", o2.user_id, 0, "").orders = {o1}
        /\ get_orders(o1.user_id, "admin", o2.user_id, 0, "").orders = {o2}
        /\ get_orders(o1.user_id, "admin", 0, o1.created_at, "").orders = {o1}
        /\ get_orders(o1.user_id, "admin", 0, 0, o2.status).orders = {o2}
        /\ get_orders(o1.user_id, "admin", 0, 0, "").orders = {o1, o2}

\* C22: a reset_password answered 200 leaves the user without a reset token,
\* and a reset_password of an active user who has no stored reset token, or
\* whose stored token is another one, is answered 400 "Invalid email or
\* token." and leaves the password as it is.
C22_ResetTokenSingleUse ==
    \A e \in Emails, t \in TokenValues, pw \in Passwords :
        LET r == reset_password(e, t, pw)
            stored == {x \in password_reset_tokens :
                          \E u \in UserByEmail(e) : x.user_id = u.id}
        IN  /\ r.status = 200 =>
                 ~\E x \in r.password_reset_tokens :
                     \E u \in UserByEmail(e) : x.user_id = u.id
            /\ (/\ \E u \in UserByEmail(e) : u.is_active
                /\ \A x \in stored : x.token # t) =>
                 /\ r.status = 400
                 /\ r.detail = "Invalid email or token."
                 /\ r.users = users

\* C23: a logout_user answered 204 leaves no refresh token row of the user,
\* so that refresh_access_token answers 401 for every refresh token login_user
\* gave the user before.
C23_LogoutRevokesEveryToken ==
    \A u \in users : \A rec \in FirstRefreshToken(u.id) :
        LET r == logout_user(u.id, rec)
        IN  r.status = 204 =>
              \A t \in refresh_tokens :
                  t.user_id = u.id => ~RefreshTokenFound(r.refresh_tokens, t.token)

\* C24: resend_activation_token of an existing user whose stored activation
\* token, if any, has expired is answered 200 and stores a new token for the
\* user; it is answered 400 only when the user has a token that has not
\* expired; and no user has more than one activation token.
C24_ResendAfterExpiry ==
    /\ \A u \in users :
          Cardinality({t \in activation_tokens : t.user_id = u.id}) <= 1
    /\ \A e \in Emails :
          LET r == resend_activation_token(e)
              stored == {t \in activation_tokens :
                            \E u \in UserByEmail(e) : t.user_id = u.id}
          IN  /\ (UserByEmail(e) # {} /\ \A t \in stored : Expired(t)) =>
                    /\ r.status = 200
                    /\ \E t \in r.activation_tokens :
                          /\ t.token = next_token
                          /\ \E u \in UserByEmail(e) : t.user_id = u.id
              /\ r.status = 400 => \E t \in stored : ~Expired(t)

\* C25: for a user whose cart has items and whose orders all have items,
\* create_order is answered "you already have order with the same movies" if
\* and only if some order of the user is pending and its movie set is the
\* movie set of the cart.
C25_DuplicateIffSameSetPending ==
    \A u \in Users, g \in Gateway :
        (/\ CartMovieIds(u) # {}
         /\ \A m \in CartMovieIds(u) : MovieExists(m)
         /\ \A o \in orders : o.user_id = u => OrderMovieIds(o.id) # {}) =>
            ((create_order(u, g).detail = "you already have order with the same movies")
               <=> \E o \in orders : /\ o.user_id = u
                                     /\ o.status = "pending"
                                     /\ OrderMovieIds(o.id) = CartMovieIds(u))

\* C26: no step changes the status of a Payment that is canceled or refunded,
\* or the status of its Order.
C26_CanceledAndRefundedAreTerminal ==
    [][\A p \in payments :
          p.status \in {"canceled", "refunded"} =>
              /\ \E q \in payments' : q.id = p.id /\ q.status = p.status
              /\ \A o \in orders :
                    o.id = p.order_id =>
                        \E o2 \in orders' : o2.id = o.id /\ o2.status = o.status]_vars

\* C27: the statuses of every order and of its payment are (pending, pending),
\* (paid, successful), (canceled, canceled) or (canceled, refunded).
C27_StatusPairs ==
    \A o \in orders, p \in payments :
        p.order_id = o.id =>
            <<o.status, p.status>> \in
                {<<"pending", "pending">>, <<"paid", "successful">>,
                 <<"canceled", "canceled">>, <<"canceled", "refunded">>}

\* a paid order with its successful payment next to a canceled order with
\* its refunded payment
C27_Witness ==
    \E o1 \in orders, o2 \in orders, p1 \in payments, p2 \in payments :
        /\ p1.order_id = o1.id
        /\ p2.order_id = o2.id
        /\ <<o1.status, p1.status>> = <<"paid", "successful">>
        /\ <<o2.status, p2.status>> = <<"canceled", "refunded">>

\* C28: a user holds a Purchase row of a movie if and only if some order of
\* that user that contains the movie is paid.
C28_PurchasesMatchPaidOrders ==
    \A u \in Users, m \in MovieIds :
        BagIn([user_id |-> u, movie_id |-> m], purchases)
            <=> \E o \in orders : /\ o.user_id = u
                                  /\ o.status = "paid"
                                  /\ m \in OrderMovieIds(o.id)

\* C29: no user has two paid orders that contain the same movie.
C29_NoMoviePaidTwice ==
    \A o1 \in orders, o2 \in orders :
        (/\ o1.id # o2.id
         /\ o1.user_id = o2.user_id
         /\ o1.status = "paid"
         /\ o2.status = "paid") =>
            OrderMovieIds(o1.id) \cap OrderMovieIds(o2.id) = {}

\* C30: requests being served one after the other, no cart holds a movie for
\* which the user of the cart holds a Purchase row.
C30_CartDisjointFromPurchases ==
    \A u \in Users : \A m \in CartMovieIds(u) :
        ~BagIn([user_id |-> u, movie_id |-> m], purchases)

\* a user who bought a movie has a cart again, with another movie, and the
\* bought movie is refused there
C30_Witness ==
    \E u \in Users, m \in MovieIds :
        /\ BagIn([user_id |-> u, movie_id |-> m], purchases)
        /\ CartMovieIds(u) # {}
        /\ create_or_update_cart(u, m).status = 400

====
